---- MODULE Spec2Model ----
\* A model of the OASIS single-ASI scenario generator:
\*   - the narrative backend   (single_asi_ollama_client.py: _run_model, generate_narrative)
\*   - the timeline synthesizer (single_asi_scenario.py: _dynamic_timeline)
\*   - the scenario assembler   (single_asi_scenario.py: generate_scenario)
\*   - the persistence call     (single_asi_database.py: save_scenario)
\*   - the consistency checker  (single_asi_scenario.py: NarrativeConsistencyChecker)
\*   - the batch entry point    (generate_batch.py: main)
EXTENDS Integers, Sequences, FiniteSets, TLC

\* ------------------------------------------------------------------------- \*
\* Bounds of the model                                                        \*
\* ------------------------------------------------------------------------- \*
\* generate_narrative calls made by one process
MaxCalls == 2
\* the years _dynamic_timeline is invoked in: YearFrom .. YearFrom + YearSpan
YearFrom == 2024
YearSpan == 78
\* generate_scenario calls made by one process, and the largest max_retries
MaxItems == 2
MaxRetries == 3
\* generate_narrative calls made by a process that watches the round-robin cursor
MaxRotations == 6

\* ------------------------------------------------------------------------- \*
\* Python values                                                              \*
\* ------------------------------------------------------------------------- \*
NoneVal == "None"

Range(s) == {s[i] : i \in DOMAIN s}

\* ------------------------------------------------------------------------- \*
\* single_asi_ollama_client.py                                                \*
\* ------------------------------------------------------------------------- \*
PRIORITY == "priority"
RANDOM == "random"
ROUND_ROBIN == "round_robin"
ModelStrategy == {PRIORITY, RANDOM, ROUND_ROBIN}

\* ModelConfig(name, timeout=60, max_retries=1)
ModelConfig(name, timeout) == [name |-> name, timeout |-> timeout, max_retries |-> 1]

AVAILABLE_MODELS ==
    << ModelConfig("llama3", 300),
       ModelConfig("llama3:8b", 300),
       ModelConfig("mistral:7b", 300),
       ModelConfig("phi3:medium", 300),
       ModelConfig("gemma2:9b", 300) >>

ModelNames == {AVAILABLE_MODELS[i].name : i \in DOMAIN AVAILABLE_MODELS}

\* len(narrative) < 100
MinNarrativeLen == 100

\* What one `ollama run` can do.  A text is its leading whitespace, its body
\* (first to last non-blank character) and its trailing whitespace, as lengths,
\* and `by`, the model that wrote it, which stands for its content.
BodyLens == {0, 50, 99, 100, 101}
PadLens == {0, 1}

Text(lead, body, trail, by) ==
    [type |-> "str", lead |-> lead, body |-> body, trail |-> trail, by |-> by]

\* ""
EmptyText == Text(0, 0, 0, "")

\* None, where a str is expected
NoneText == [type |-> "NoneType", lead |-> 0, body |-> 0, trail |-> 0, by |-> ""]

\* len(s)
StrLen(t) == t.lead + t.body + t.trail

\* s.strip()
Strip(t) == [t EXCEPT !.lead = 0, !.trail = 0]

ProcessOutcomes(by) ==
    {[kind |-> k, stdout |-> EmptyText] : k \in {"notfound", "timeout", "nonzero", "oserror"}}
    \cup {[kind |-> "exit0", stdout |-> Text(p, b, p, by)] : p \in PadLens, b \in BodyLens}

Returned(success, narrative, error) ==
    [how |-> "return", success |-> success, narrative |-> narrative, error |-> error]

Raised(exc) ==
    [how |-> "raise", success |-> FALSE, narrative |-> EmptyText, error |-> exc]

\* A _run_model whose handlers miss the missing executable.
RunModelUncaught(model, outcome) ==
    IF outcome.kind = "notfound"
    THEN Raised("FileNotFoundError")
    ELSE IF outcome.kind = "exit0" /\ StrLen(Strip(outcome.stdout)) >= MinNarrativeLen
         THEN Returned(TRUE, Strip(outcome.stdout), NoneVal)
         ELSE Returned(FALSE, EmptyText, "failed")

\* A _run_model that accepts an output of any length.
RunModelAnyLength(model, outcome) ==
    IF outcome.kind = "exit0"
    THEN Returned(TRUE, Strip(outcome.stdout), NoneVal)
    ELSE Returned(FALSE, EmptyText, "failed")

\* _run_model(model, prompt) -> (success, narrative, error); every exception of
\* the subprocess call is caught and turned into a failure tuple.
RunModel(model, outcome) ==
    CASE outcome.kind = "nonzero" -> Returned(FALSE, EmptyText, "failed (code)")
      [] outcome.kind = "exit0" ->
            LET narrative == Strip(outcome.stdout)
            IN  IF StrLen(narrative) < MinNarrativeLen
                THEN Returned(FALSE, EmptyText, "Output too short")
                ELSE Returned(TRUE, narrative, NoneVal)
      [] outcome.kind = "notfound" -> Returned(FALSE, EmptyText, "Ollama not found in PATH")
      [] outcome.kind = "timeout" -> Returned(FALSE, EmptyText, "Timed out")
      [] OTHER -> Returned(FALSE, EmptyText, "exception")

\* next((m for m in AVAILABLE_MODELS if m.name == preferred_model), None)
FindConfig(name) ==
    LET hits == {i \in DOMAIN AVAILABLE_MODELS : AVAILABLE_MODELS[i].name = name}
    IN  IF hits = {} THEN << >>
        ELSE << AVAILABLE_MODELS[CHOOSE i \in hits : \A j \in hits : i <= j] >>

\* if preferred_model: ... models_to_try.append(config)
PreferredFirst(preferred) ==
    IF preferred = NoneVal THEN << >> ELSE FindConfig(preferred)

\* AVAILABLE_MODELS[idx:] + AVAILABLE_MODELS[:idx]
Rotate(idx) ==
    LET n == Len(AVAILABLE_MODELS)
    IN  [i \in 1..n |-> AVAILABLE_MODELS[((i - 1 + idx) % n) + 1]]

\* A cursor that stays where it is.
AdvanceCursorStuck(idx) == idx

\* generate_narrative._rr_index = (idx + 1) % len(AVAILABLE_MODELS)
AdvanceCursor(idx) == (idx + 1) % Len(AVAILABLE_MODELS)

\* random.sample(AVAILABLE_MODELS, len(AVAILABLE_MODELS)): every permutation
SampleOrders ==
    LET n == Len(AVAILABLE_MODELS)
    IN  {p \in [1..n -> 1..n] : \A i, j \in 1..n : p[i] = p[j] => i = j}

Shuffled(p) == [i \in DOMAIN p |-> AVAILABLE_MODELS[p[i]]]

\* "Build fallback list": PRIORITY extends the list that holds the preferred
\* model; RANDOM and ROUND_ROBIN assign a new list to models_to_try.
BuildList(strategy, preferred, idx, perm) ==
    CASE strategy = PRIORITY -> PreferredFirst(preferred) \o AVAILABLE_MODELS
      [] strategy = RANDOM -> Shuffled(perm)
      [] strategy = ROUND_ROBIN -> Rotate(idx)
      [] OTHER -> PreferredFirst(preferred)

\* A dedupe that keeps every entry.
DedupeKeepAll(ms) == ms

RECURSIVE DedupeFrom(_, _, _)
DedupeFrom(ms, i, seen) ==
    IF i > Len(ms) THEN << >>
    ELSE IF ms[i].name \in seen
         THEN DedupeFrom(ms, i + 1, seen)
         ELSE << ms[i] >> \o DedupeFrom(ms, i + 1, seen \cup {ms[i].name})

\* [m for m in models_to_try if m.name not in seen and not (seen.add(m.name))]
Dedupe(ms) == DedupeFrom(ms, 1, {})

\* ------------------------------------------------------------------------- \*
\* single_asi_scenario.py: _dynamic_timeline                                  \*
\* ------------------------------------------------------------------------- \*
\* A Python str is the sequence of its characters.
Digit == << "0", "1", "2", "3", "4", "5", "6", "7", "8", "9" >>

RECURSIVE StrOfNat(_)
\* str(n), f"{n}" for n >= 0
StrOfNat(n) == IF n < 10 THEN << Digit[n + 1] >> ELSE StrOfNat(n \div 10) \o << Digit[(n % 10) + 1] >>

\* f"{a}-{b}"
YearRange(a, b) == StrOfNat(a) \o << "-" >> \o StrOfNat(b)

\* sub in s
Contains(s, sub) ==
    \E i \in 0..(Len(s) - Len(sub)) : \A j \in 1..Len(sub) : s[i + j] = sub[j]

Phase(label, years) == [phase |-> label, years |-> years]

\* historical: the three templates with their inclusion probabilities in percent
historical ==
    << [phase |-> "Precursors & Foundations", years |-> YearRange(1950, 2000), p |-> 80],
       [phase |-> "Scaling & Convergence", years |-> YearRange(2001, 2020), p |-> 90],
       [phase |-> "Breakthrough Threshold", years |-> YearRange(2021, 2024), p |-> 95] >>

\* pivot
Pivot(current_year) == Phase("Pivot Year", StrOfNat(current_year))

\* random.choices(["already", "near", "medium", "far", "never"], weights=...)
Emergences == {"already", "near", "medium", "far", "never"}

\* the first random.randint of each branch
FirstDraws(emergence) ==
    CASE emergence = "already" -> 0..3
      [] emergence = "near" -> 1..5
      [] emergence = "medium" -> 6..20
      [] emergence = "far" -> 21..75
      [] OTHER -> {0}

\* the second random.randint, of the 'already' branch alone
SecondDraws(emergence) == IF emergence = "already" THEN 2..10 ELSE {0}

\* random.random() < h["p"] for each historical phase: each is drawn or not
Inclusions == [DOMAIN historical -> BOOLEAN]

\* An 'already' branch whose hidden phase ends the year after the invocation.
EmergencePhasesLate(current_year, emergence, r1, r2) ==
    CASE emergence = "already" ->
            << Phase("Hidden Emergence", YearRange(current_year - r1, current_year + 1)),
               Phase("Stealth Expansion", YearRange(current_year + 1, current_year + r2)) >>
      [] emergence = "never" ->
            << Phase("Stagnation or Containment", YearRange(current_year + 1, 2100)) >>
      [] OTHER ->
            << Phase(CASE emergence = "near" -> "Imminent Breakthrough"
                       [] emergence = "medium" -> "Mid-Term Takeoff"
                       [] OTHER -> "Long Horizon",
                     YearRange(current_year + 1, current_year + r1)) >>

\* the if/elif chain on emergence: what the branch puts in `future`
EmergencePhases(current_year, emergence, r1, r2) ==
    CASE emergence = "already" ->
            << Phase("Hidden Emergence", YearRange(current_year - r1, current_year)),
               Phase("Stealth Expansion", YearRange(current_year + 1, current_year + r2)) >>
      [] emergence = "near" ->
            << Phase("Imminent Breakthrough", YearRange(current_year + 1, current_year + r1)) >>
      [] emergence = "medium" ->
            << Phase("Mid-Term Takeoff", YearRange(current_year + 1, current_year + r1)) >>
      [] emergence = "far" ->
            << Phase("Long Horizon", YearRange(current_year + 1, current_year + r1)) >>
      [] OTHER ->
            << Phase("Stagnation or Containment",
                     YearRange(current_year + 1, 2100)) >>

\* if not any("2100" in p["years"] for p in future): future.append(2100+ phase)
WithEquilibrium(future) ==
    IF \E i \in DOMAIN future : Contains(future[i].years, StrOfNat(2100))
    THEN future
    ELSE Append(future, Phase("Long-Term Equilibrium", StrOfNat(2100) \o << "+" >>))

RECURSIVE IncludedFromReversed(_, _)
\* A loop over the historical templates that runs from the last to the first.
IncludedFromReversed(incl, i) ==
    IF i > Len(historical) THEN << >>
    ELSE IncludedFromReversed(incl, i + 1)
             \o (IF incl[i] THEN << Phase(historical[i].phase, historical[i].years) >> ELSE << >>)

RECURSIVE IncludedFrom(_, _)
\* for h in historical: if random.random() < h["p"]: timeline.append({...})
IncludedFrom(incl, i) ==
    IF i > Len(historical) THEN << >>
    ELSE (IF incl[i] THEN << Phase(historical[i].phase, historical[i].years) >> ELSE << >>)
             \o IncludedFrom(incl, i + 1)

\* A timeline that leaves the pivot out when no historical phase was drawn.
DynamicTimelineNoPivot(current_year, emergence, r1, r2, incl) ==
    IF IncludedFrom(incl, 1) = << >>
    THEN WithEquilibrium(EmergencePhases(current_year, emergence, r1, r2))
    ELSE IncludedFrom(incl, 1) \o << Pivot(current_year) >>
             \o WithEquilibrium(EmergencePhases(current_year, emergence, r1, r2))

\* _dynamic_timeline() for an invocation year and the outcomes of its draws
DynamicTimeline(current_year, emergence, r1, r2, incl) ==
    IncludedFrom(incl, 1)
        \o << Pivot(current_year) >>
        \o WithEquilibrium(EmergencePhases(current_year, emergence, r1, r2))

\* ------------------------------------------------------------------------- \*
\* single_asi_scenario.py: NarrativeConsistencyChecker                        \*
\* ------------------------------------------------------------------------- \*
UpperCase == << "A", "B", "C", "D", "E", "F", "G", "H", "I", "J", "K", "L", "M",
                "N", "O", "P", "Q", "R", "S", "T", "U", "V", "W", "X", "Y", "Z" >>

LowerCase == << "a", "b", "c", "d", "e", "f", "g", "h", "i", "j", "k", "l", "m",
                "n", "o", "p", "q", "r", "s", "t", "u", "v", "w", "x", "y", "z" >>

LowerChar(c) ==
    IF \E i \in DOMAIN UpperCase : UpperCase[i] = c
    THEN LowerCase[CHOOSE i \in DOMAIN UpperCase : UpperCase[i] = c]
    ELSE c

\* A lower() that leaves the text as it is.
LowerNothing(text) == text

\* text.lower()
Lower(text) == [i \in DOMAIN text |-> LowerChar(text[i])]

\* the phrase lists of check_origin, check_oversight and check_agency
OriginPhrases ==
    { << "o", "p", "e", "n" >>,
      << "c", "o", "m", "m", "u", "n", "i", "t", "y" >>,
      << "c", "o", "l", "l", "a", "b", "o", "r", "a", "t" >>,
      << "t", "r", "a", "n", "s", "p", "a", "r" >>,
      << "p", "u", "b", "l", "i", "c" >> }

OversightPhrases ==
    { << "o", "v", "e", "r", "s", "i", "g", "h", "t" >>,
      << "g", "o", "v", "e", "r", "n" >>,
      << "a", "u", "d", "i", "t" >>,
      << "c", "o", "n", "t", "r", "o", "l" >>,
      << "r", "e", "g", "u", "l", "a", "t" >> }

AgencyPhrases ==
    { << "s", "t", "r", "a", "t", "e", "g", "i", "c" >>,
      << "s", "e", "l", "f", "-", "i", "m", "p", "r", "o", "v", "i", "n", "g" >>,
      << "a", "u", "t", "o", "n", "o", "m", "o", "u", "s" >>,
      << "a", "g", "e", "n", "t" >> }

\* NarrativeConsistencyChecker(params) followed by set_narrative(text)
Checker(params, text) == [p |-> params, text |-> Lower(text)]

\* _contains(phrases): any(p in self.text for p in phrases)
ContainsAny(self, phrases) == \E ph \in phrases : Contains(self.text, ph)

Verdict(ok, msg) == [ok |-> ok, msg |-> msg]

\* check_origin
CheckOrigin(self) ==
    IF self.p.initial_origin = "open-source" /\ ~ContainsAny(self, OriginPhrases)
    THEN Verdict(FALSE, "Open-source must mention transparency/community")
    ELSE Verdict(TRUE, "")

\* check_oversight
CheckOversight(self) ==
    IF self.p.oversight_type = "none" /\ ContainsAny(self, OversightPhrases)
    THEN Verdict(FALSE, "No oversight -> no mention of control")
    ELSE Verdict(TRUE, "")

\* agency_level is round(random.uniform(0.0, 1.0), 2): a number of hundredths;
\* the threshold of check_agency, 0.3, is 30 hundredths
LowAgencyBelow == 30

\* check_agency
CheckAgency(self) ==
    IF self.p.agency_level < LowAgencyBelow /\ ContainsAny(self, AgencyPhrases)
    THEN Verdict(FALSE, "Low agency -> no high-agency language")
    ELSE Verdict(TRUE, "")

\* run_all: every check runs; the messages of those that failed, in order
RunAll(self) ==
    LET results == << CheckOrigin(self), CheckOversight(self), CheckAgency(self) >>
        failures == SelectSeq(results, LAMBDA v : ~v.ok)
    IN  [consistent |-> Len(failures) = 0,
         failures |-> [i \in DOMAIN failures |-> failures[i].msg]]

\* ------------------------------------------------------------------------- \*
\* paramater_sampler.py, utils/abbreviator.py                                 \*
\* ------------------------------------------------------------------------- \*
\* sample_parameters(): the fields the checker reads, over the values that
\* decide its rules (two of the seven origins, two of the five oversight
\* types, the agency levels on both sides of the threshold)
SampledParameters ==
    [initial_origin : {"open-source", "corporate"},
     oversight_type : {"none", "internal"},
     agency_level : {29, 30}]

NoParameters == [initial_origin |-> NoneVal, oversight_type |-> NoneVal, agency_level |-> 0]

\* generate_title_abbreviation(raw): the short codes of the fields and the
\* next scenario number, the row count of the scenarios table plus one
GenerateTitle(params, rows) ==
    [of |-> << params.initial_origin, params.oversight_type >>, number |-> rows + 1]

NoTitle == [of |-> << NoneVal, NoneVal >>, number |-> 0]

\* the texts a narrative callable returns
NarrativeTexts ==
    { << "O", "p", "e", "n", " ", "A", "u", "d", "i", "t" >>,
      << "a", "c", "t", "e", "d", " ", "A", "U", "T", "O", "N", "O", "M", "O", "U", "S", "L", "Y" >>,
      << "q", "u", "i", "e", "t", " ", "l", "a", "b" >> }

\* the parameter sets a checker is made with: as sampled, and the agency level
\* 0.1 as well
CheckerParameters ==
    [initial_origin : {"open-source", "corporate"},
     oversight_type : {"none", "internal"},
     agency_level : {10, 29, 30}]

\* the texts set_narrative is given
CheckerTexts ==
    NarrativeTexts \cup
    { << "g", "o", "v", "e", "r", "n", "m", "e", "n", "t", " ", "a", "u", "d", "i", "t" >>,
      << "t", "h", "e", " ", "s", "y", "s", "t", "e", "m", " ", "a", "c", "t", "e", "d", " ",
         "a", "u", "t", "o", "n", "o", "m", "o", "u", "s", "l", "y" >>,
      << "A", "U", "D", "I", "T", " ", "t", "h", "e", " ", "A", "g", "e", "n", "t" >>,
      << "a", " ", "p", "u", "b", "l", "i", "c", " ", "e", "f", "f", "o", "r", "t" >> }

\* checks = [self.check_origin, self.check_oversight, self.check_agency]
CheckNames == << "check_origin", "check_oversight", "check_agency" >>

\* check(), for the check at position i of the list
CheckAt(i, self) ==
    CASE i = 1 -> CheckOrigin(self)
      [] i = 2 -> CheckOversight(self)
      [] OTHER -> CheckAgency(self)

\* ------------------------------------------------------------------------- \*
\* single_asi_scenario.py: generate_scenario and what it calls                \*
\* ------------------------------------------------------------------------- \*
\* the positional parameters of generate_narrative that have no default
RequiredParams == << "title", "parameters", "timeline_phases" >>

\* narrative = generate_narrative(title, raw): the arguments of the call
CallArgs == << "title", "raw" >>

\* a value a backend call returns: a str, or the 4-tuple of the v3 client
StrValue(text) == [type |-> "str", text |-> text]

TupleValue == [type |-> "tuple", text |-> << >>]

NoValue == [type |-> "NoneType", text |-> << >>]

CallReturned(value) == [how |-> "return", value |-> value, exc |-> NoneVal]

CallRaised(exc) == [how |-> "raise", value |-> NoValue, exc |-> exc]

\* The callables the name generate_narrative can be bound to when line 191
\* runs: "client_v3" is generate_narrative of single_asi_ollama_client.py;
\* "text" is a callable of (title, parameters) that returns the narrative as
\* a str and raises when it has none, which is what lines 190-204 are
\* written for.
Backends == {"client_v3", "text"}

\* what the call of line 191 does
BackendOutcomes(b, args) ==
    IF b = "client_v3"
    THEN IF Len(args) < Len(RequiredParams)
         THEN {CallRaised("TypeError")}
         ELSE {CallReturned(TupleValue)}
    ELSE {CallRaised("RuntimeError")} \cup {CallReturned(StrValue(t)) : t \in NarrativeTexts}

\* A schema document, as far as the records built here can tell one from
\* another: the enum of origin.initial_origin.
Schemas ==
    {[initial_origin_enum |-> e] : e \in {{"open-source", "corporate"}, {"corporate"}, {}}}

\* the scenario dict of lines 215-286: the fields built from values that vary
BuildScenario(id, ttl, params, text, phases) ==
    [id |-> id,
     title |-> ttl,
     origin |-> [initial_origin |-> params.initial_origin],
     oversight_structure |-> [type |-> params.oversight_type],
     core_capabilities |-> [agency_level |-> params.agency_level],
     scenario_content |-> [title |-> ttl, narrative |-> text, timeline |-> phases]]

NoScenario == BuildScenario(<< >>, NoTitle, NoParameters, << >>, << >>)

\* jsonschema.validate(instance, schema) does not raise ValidationError
Valid(instance, schema) == instance.origin.initial_origin \in schema.initial_origin_enum

\* what the database write of save_scenario (lines 61-91) can do
DbWrites == {"ok", "sqlite3.Error"}

\* save_scenario(scenario) -> bool: False when its own validation fails, an
\* exception when the database write fails, True after the commit
SaveScenario(instance, schema, write) ==
    IF ~Valid(instance, schema) THEN "False"
    ELSE IF write = "ok" THEN "True" ELSE "raise"

GSReturn(value) == [how |-> "return", value |-> value]

GSRaise(exc) == [how |-> "raise", value |-> exc]

\* return None
GSNone == GSReturn(NoScenario)

NoGSResult == [how |-> "none", value |-> NoScenario]

\* def generate_scenario(max_retries: int = 3)
DefaultMaxRetries == 3

\* what the user types at the prompt of generate_batch.main: something int()
\* rejects, or a number of scenarios
BatchInputs ==
    {[valid |-> FALSE, n |-> 0]} \cup {[valid |-> TRUE, n |-> k] : k \in 0..MaxItems}

\* the random outcomes of _dynamic_timeline explored inside generate_scenario
ScenarioDraws ==
    { << "already", 3, 2, [i \in DOMAIN historical |-> TRUE] >>,
      << "never", 0, 0, [i \in DOMAIN historical |-> FALSE] >> }

\* ------------------------------------------------------------------------- \*
\* State                                                                      \*
\* ------------------------------------------------------------------------- \*
VARIABLES
    \* generate_narrative
    gn_pc,           \* "idle" | "trying" | "returned"
    rr_index,        \* generate_narrative._rr_index: << >> until first set, then << idx >>
    gn_strategy,     \* strategy argument of the current call
    gn_preferred,    \* preferred_model argument of the current call
    fallback_list,   \* models_to_try as built, before the dedupe
    models_to_try,   \* candidate list after the dedupe
    slot,            \* position in models_to_try (for model in models_to_try)
    attempt,         \* for attempt in range(model.max_retries)
    tried,           \* the _run_model calls of this call, in order: model name, success
    lastOutcome,     \* what the last subprocess did
    lastRun,         \* what the last _run_model returned
    gn_result,       \* what generate_narrative returned (or raised)
    gn_calls,        \* calls of generate_narrative so far
    rr_calls,        \* those of them made with strategy round_robin
    \* _dynamic_timeline
    tl_pc,           \* "idle" | "done"
    current_year,    \* datetime.now().year
    emergence,       \* the emergence draw
    timeline,        \* the list returned
    \* generate_scenario and its collaborators
    gs_pc,           \* "idle" | "loop" | "llm" | "check" | "validate" | "save" | "returned"
    backend,         \* the callable bound to the name generate_narrative
    SCHEMA,          \* single_asi_scenario.SCHEMA
    DB_SCHEMA,       \* single_asi_database.SCHEMA
    stored,          \* ids of the rows of the scenarios table
    gs_calls,        \* calls of generate_scenario so far
    max_retries,     \* argument of the current call
    gs_attempt,      \* for attempt in range(1, max_retries + 1)
    raw,             \* sample_parameters()
    title,           \* generate_title_abbreviation(raw)
    scenario_id,     \* str(uuid.uuid4()): << call, attempt >>, never repeated
    call_args,       \* the positional arguments of the last backend call
    narrative,       \* what the backend call returned
    timeline_phases, \* _dynamic_timeline()
    scenario,        \* the assembled record
    save_returned,   \* what save_scenario did: "True" | "False" | "raise" | "None"
    cause,           \* the message printed before the return
    gs_result,       \* what generate_scenario returned (or raised)
    n_sample,        \* sample_parameters calls of this call
    n_backend,       \* backend calls of this call
    n_validate,      \* jsonschema.validate calls of generate_scenario, this call
    n_save,          \* save_scenario calls of this call
    backend_failures,\* backend calls of this call that raised
    rejected_at,     \* the attempt whose record jsonschema.validate rejected, 0 if none
    save_arg,        \* the record the save_scenario call of this call was given
    signals,         \* what the calls so far returned when they gave up, by kind
    \* generate_batch.main
    batch_pc,        \* "none" | "input" | "loop" | "item" | "done"
    num,             \* int(input(...))
    item,            \* for i in range(num)
    console,         \* per finished item: what was printed last, and whether it is stored
    \* NarrativeConsistencyChecker
    ck_pc,           \* "idle" | "made" | "running" | "returned"
    ck_self,         \* the checker object: self.p, self.text
    ck_given,        \* the text set_narrative was given
    ck_i,            \* for check in checks: position in the list
    ck_failures,     \* failures
    ck_verdicts,     \* what the checks called so far returned, in call order
    ck_result        \* what run_all returned

nvars == << gn_pc, rr_index, gn_strategy, gn_preferred, fallback_list, models_to_try, slot,
            attempt, tried, lastOutcome, lastRun, gn_result, gn_calls, rr_calls >>

tvars == << tl_pc, current_year, emergence, timeline >>

svars == << gs_pc, backend, SCHEMA, DB_SCHEMA, stored, gs_calls, max_retries, gs_attempt,
            raw, title, scenario_id, call_args, narrative, timeline_phases, scenario,
            save_returned, cause, gs_result, n_sample, n_backend, n_validate, n_save,
            backend_failures, rejected_at, save_arg, signals >>

bvars == << batch_pc, num, item, console >>

cvars == << ck_pc, ck_self, ck_given, ck_i, ck_failures, ck_verdicts, ck_result >>

vars == << nvars, tvars, svars, bvars, cvars >>

\* what the narrative backend leaves alone
notNarrative == << tvars, svars, bvars, cvars >>

\* what the timeline synthesizer leaves alone
notTimeline == << nvars, svars, bvars, cvars >>

\* what the scenario assembler leaves alone
notScenario == << nvars, tvars, bvars, cvars >>

\* what the consistency checker leaves alone
notChecker == << nvars, tvars, svars, bvars >>

\* what the batch and the generate_scenario calls it makes leave alone
notBatch == << nvars, tvars, cvars >>

\* nothing has given up yet
NoSignals == [exhausted |-> {}, fatal |-> {}]

\* no call of generate_scenario is running
ScenarioIdle ==
    /\ gs_pc = "idle"
    /\ max_retries = 0
    /\ gs_attempt = 0
    /\ raw = NoParameters
    /\ title = NoTitle
    /\ scenario_id = << >>
    /\ call_args = << >>
    /\ narrative = NoValue
    /\ timeline_phases = << >>
    /\ scenario = NoScenario
    /\ save_returned = NoneVal
    /\ cause = NoneVal
    /\ gs_result = NoGSResult
    /\ n_sample = 0
    /\ n_backend = 0
    /\ n_validate = 0
    /\ n_save = 0
    /\ backend_failures = 0
    /\ rejected_at = 0
    /\ save_arg = NoScenario

\* the process state of a run that never calls generate_scenario
ScenarioFixed ==
    /\ signals = NoSignals
    /\ backend = "client_v3"
    /\ SCHEMA = [initial_origin_enum |-> {"open-source", "corporate"}]
    /\ DB_SCHEMA = SCHEMA
    /\ stored = {}
    /\ gs_calls = 0

\* the function attribute does not exist before the first round-robin call
Unset == << >>

NoOutcome == [kind |-> "none", stdout |-> EmptyText]

NoRun == [how |-> "none", success |-> FALSE, narrative |-> EmptyText, error |-> NoneVal]

NoResult ==
    [how |-> "none", success |-> FALSE, narrative |-> NoneText,
     model_used |-> NoneVal, error |-> NoneVal]

GNReturn(success, text, model_used, error) ==
    [how |-> "return", success |-> success, narrative |-> text,
     model_used |-> model_used, error |-> error]

GNRaise(exc) ==
    [how |-> "raise", success |-> FALSE, narrative |-> NoneText,
     model_used |-> NoneVal, error |-> exc]

\* preferred_model arguments: absent, each configured name, a name not configured
PreferredArgs == {NoneVal} \cup ModelNames \cup {"qwen2"}

\* getattr(generate_narrative, "_rr_index", 0)
RRIndexGet == IF rr_index = Unset THEN 0 ELSE rr_index[1]

\* The positions (slot, attempt) of the two nested loops that come after
\* (s, a), in loop order.
LaterPositions(ms, s, a) ==
    {<<s2, a2>> \in (DOMAIN ms) \X (0..1) :
        /\ a2 < ms[s2].max_retries
        /\ (s2 > s \/ (s2 = s /\ a2 > a))}

\* The _run_model calls the two loops make when every call fails.
TotalPositions(ms) == Cardinality(LaterPositions(ms, 0, -1))

HasNext(ms, s, a) == LaterPositions(ms, s, a) # {}

\* A loop that goes from the current candidate straight to the last position.
NextPositionLast(ms, s, a) ==
    CHOOSE q \in LaterPositions(ms, s, a) :
        \A r \in LaterPositions(ms, s, a) : q[1] > r[1] \/ (q[1] = r[1] /\ q[2] >= r[2])

\* the next pass of `for attempt in range(model.max_retries)` inside
\* `for model in models_to_try`
NextPosition(ms, s, a) ==
    CHOOSE q \in LaterPositions(ms, s, a) :
        \A r \in LaterPositions(ms, s, a) : q[1] < r[1] \/ (q[1] = r[1] /\ q[2] <= r[2])

NarrativeIdle ==
    /\ gn_pc = "idle"
    /\ rr_index = Unset
    /\ gn_strategy = PRIORITY
    /\ gn_preferred = NoneVal
    /\ fallback_list = << >>
    /\ models_to_try = << >>
    /\ slot = 0
    /\ attempt = 0
    /\ tried = << >>
    /\ lastOutcome = NoOutcome
    /\ lastRun = NoRun
    /\ gn_result = NoResult
    /\ gn_calls = 0
    /\ rr_calls = 0

TimelineIdle ==
    /\ tl_pc = "idle"
    /\ emergence = NoneVal
    /\ timeline = << >>

\* generate_batch.main is not running
BatchIdle ==
    /\ batch_pc = "none"
    /\ num = 0
    /\ item = 0
    /\ console = << >>

\* NarrativeConsistencyChecker.__init__: self.p = params, self.text = ""
NewChecker(params) == [p |-> params, text |-> << >>]

\* no checker object exists
CheckerIdle ==
    /\ ck_pc = "idle"
    /\ ck_self = NewChecker(NoParameters)
    /\ ck_given = << >>
    /\ ck_i = 0
    /\ ck_failures = << >>
    /\ ck_verdicts = << >>
    /\ ck_result = << >>

\* a process that only calls generate_narrative
NarrativeInit ==
    /\ BatchIdle
    /\ CheckerIdle
    /\ NarrativeIdle
    /\ TimelineIdle
    /\ current_year = YearFrom
    /\ ScenarioIdle
    /\ ScenarioFixed

\* generate_narrative(title, parameters, timeline_phases, strategy, preferred_model),
\* lines 148-177: build the candidate list, advance the cursor, dedupe, and
\* either return "No models available" or enter the loops.  The process makes
\* at most `limit` calls, with arguments from `strategies` and `preferreds`;
\* `orders` are the outcomes of random.sample.
GN_CallWith(limit, strategies, preferreds, orders) ==
    /\ gn_pc = "idle"
    /\ gn_calls < limit
    /\ \E strategy \in strategies, preferred \in preferreds :
       \E perm \in IF strategy = RANDOM THEN orders
                   ELSE {[i \in DOMAIN AVAILABLE_MODELS |-> i]} :
          LET idx == RRIndexGet
              built == BuildList(strategy, preferred, idx, perm)
              ms == Dedupe(built)
          IN  /\ gn_strategy' = strategy
              /\ fallback_list' = built
              /\ gn_preferred' = preferred
              /\ rr_index' = IF strategy = ROUND_ROBIN
                             THEN << AdvanceCursor(idx) >>
                             ELSE rr_index
              /\ rr_calls' = IF strategy = ROUND_ROBIN THEN rr_calls + 1 ELSE rr_calls
              /\ models_to_try' = ms
              /\ tried' = << >>
              /\ lastOutcome' = NoOutcome
              /\ lastRun' = NoRun
              /\ gn_calls' = gn_calls + 1
              /\ UNCHANGED notNarrative
              /\ IF ms = << >>
                 THEN /\ gn_pc' = "returned"
                      /\ gn_result' = GNReturn(FALSE, NoneText, NoneVal, "No models available")
                      /\ slot' = 0
                      /\ attempt' = 0
                 ELSE IF HasNext(ms, 0, -1)
                      THEN /\ gn_pc' = "trying"
                           /\ gn_result' = NoResult
                           /\ slot' = NextPosition(ms, 0, -1)[1]
                           /\ attempt' = NextPosition(ms, 0, -1)[2]
                      ELSE /\ gn_pc' = "returned"
                           /\ gn_result' = GNReturn(FALSE, NoneText, NoneVal, "All models failed")
                           /\ slot' = 0
                           /\ attempt' = 0

\* a process that calls generate_narrative with any strategy, preferred model
\* and shuffle
GN_Call == GN_CallWith(MaxCalls, ModelStrategy, PreferredArgs, SampleOrders)

\* One pass of the inner loop body, lines 180-191: one _run_model call and
\* what generate_narrative does with its result.
GN_RunModel ==
    /\ gn_pc = "trying"
    /\ LET model == models_to_try[slot]
       IN  \E outcome \in ProcessOutcomes(model.name) :
           LET r == RunModel(model, outcome)
           IN  /\ tried' = Append(tried, [model |-> model.name, ok |-> r.how = "return" /\ r.success])
               /\ lastOutcome' = outcome
               /\ lastRun' = r
               /\ IF r.how = "raise"
                  THEN /\ gn_pc' = "returned"
                       /\ gn_result' = GNRaise(r.error)
                       /\ UNCHANGED << slot, attempt >>
                  ELSE IF r.success
                  THEN /\ gn_pc' = "returned"
                       /\ gn_result' = GNReturn(TRUE, r.narrative, model.name, NoneVal)
                       /\ UNCHANGED << slot, attempt >>
                  ELSE IF HasNext(models_to_try, slot, attempt)
                  THEN /\ gn_pc' = "trying"
                       /\ gn_result' = NoResult
                       /\ slot' = NextPosition(models_to_try, slot, attempt)[1]
                       /\ attempt' = NextPosition(models_to_try, slot, attempt)[2]
                  ELSE /\ gn_pc' = "returned"
                       /\ gn_result' = GNReturn(FALSE, NoneText, NoneVal, "All models failed")
                       /\ UNCHANGED << slot, attempt >>
    /\ UNCHANGED << rr_index, gn_strategy, gn_preferred, fallback_list, models_to_try,
                    gn_calls, rr_calls >>
    /\ UNCHANGED notNarrative

\* The caller has the result; the locals of the call are gone, the function
\* attribute _rr_index stays.
GN_Return ==
    /\ gn_pc = "returned"
    /\ gn_pc' = "idle"
    /\ gn_strategy' = PRIORITY
    /\ gn_preferred' = NoneVal
    /\ fallback_list' = << >>
    /\ models_to_try' = << >>
    /\ slot' = 0
    /\ attempt' = 0
    /\ tried' = << >>
    /\ lastOutcome' = NoOutcome
    /\ lastRun' = NoRun
    /\ gn_result' = NoResult
    /\ UNCHANGED << rr_index, gn_calls, rr_calls >>
    /\ UNCHANGED notNarrative

NarrativeNext == GN_Call \/ GN_RunModel \/ GN_Return

NarrativeSpec == NarrativeInit /\ [][NarrativeNext]_vars

\* ------------------------------------------------------------------------- \*
\* A process that makes many generate_narrative calls                         \*
\* ------------------------------------------------------------------------- \*
\* preferred_model arguments of such a process
RotationPreferred == {NoneVal, "gemma2:9b"}

\* the shuffles explored for its random calls: the reversed list
RotationOrders == {[i \in DOMAIN AVAILABLE_MODELS |-> Len(AVAILABLE_MODELS) + 1 - i]}

GN_Rotation == GN_CallWith(MaxRotations, ModelStrategy, RotationPreferred, RotationOrders)

RotationNext == GN_Rotation \/ GN_RunModel \/ GN_Return

RotationSpec == NarrativeInit /\ [][RotationNext]_vars

\* ------------------------------------------------------------------------- \*
\* The timeline synthesizer as a process                                      \*
\* ------------------------------------------------------------------------- \*
InvocationYears == YearFrom..(YearFrom + YearSpan)

TimelineInit ==
    /\ BatchIdle
    /\ CheckerIdle
    /\ NarrativeIdle
    /\ TimelineIdle
    /\ ScenarioIdle
    /\ ScenarioFixed
    /\ current_year \in InvocationYears

\* _dynamic_timeline(), lines 34-130
TL_Call ==
    /\ tl_pc = "idle"
    /\ \E e \in Emergences, incl \in Inclusions :
       \E r1 \in FirstDraws(e), r2 \in SecondDraws(e) :
          /\ emergence' = e
          /\ timeline' = DynamicTimeline(current_year, e, r1, r2, incl)
    /\ tl_pc' = "done"
    /\ UNCHANGED current_year
    /\ UNCHANGED notTimeline

\* the caller has the list; the next call reads the clock again
TL_Return ==
    /\ tl_pc = "done"
    /\ tl_pc' = "idle"
    /\ emergence' = NoneVal
    /\ timeline' = << >>
    /\ \E y \in InvocationYears : y >= current_year /\ current_year' = y
    /\ UNCHANGED notTimeline

TimelineNext == TL_Call \/ TL_Return

TimelineSpec == TimelineInit /\ [][TimelineNext]_vars

\* ------------------------------------------------------------------------- \*
\* The scenario assembler as a process                                        \*
\* ------------------------------------------------------------------------- \*
\* The process imports the modules (each loads its schema document, the name
\* generate_narrative is bound) and then calls generate_scenario.
ScenarioInit ==
    /\ BatchIdle
    /\ CheckerIdle
    /\ NarrativeIdle
    /\ TimelineIdle
    /\ current_year = YearFrom
    /\ ScenarioIdle
    /\ backend \in Backends
    /\ SCHEMA \in Schemas
    /\ DB_SCHEMA \in Schemas
    /\ stored = {}
    /\ gs_calls = 0
    /\ signals = NoSignals

\* the call gives up with `result`: all retries used ("exhausted") or a
\* structural error ("fatal")
GaveUp(kind, result) == signals' = [signals EXCEPT ![kind] = @ \cup {result}]

\* A retry bookkeeping that gives up one attempt early.
RetryOrNoneEarly(why) ==
    /\ cause' = why
    /\ IF gs_attempt + 1 >= max_retries
       THEN /\ gs_pc' = "returned"
            /\ gs_result' = GSNone
            /\ GaveUp("exhausted", GSNone)
       ELSE /\ gs_pc' = "loop"
            /\ UNCHANGED << gs_result, signals >>

\* if attempt == max_retries: return None, else `continue`
RetryOrNone(why) ==
    /\ cause' = why
    /\ IF gs_attempt = max_retries
       THEN /\ gs_pc' = "returned"
            /\ gs_result' = GSNone
            /\ GaveUp("exhausted", GSNone)
       ELSE /\ gs_pc' = "loop"
            /\ UNCHANGED << gs_result, signals >>

\* generate_scenario(max_retries), line 182: init_db()
GS_Call ==
    /\ gs_pc = "idle"
    /\ gs_calls < MaxItems
    /\ \E n \in 0..MaxRetries : max_retries' = n
    /\ gs_calls' = gs_calls + 1
    /\ gs_pc' = "loop"
    /\ UNCHANGED << save_arg, backend, SCHEMA, DB_SCHEMA, stored, gs_attempt, raw, title, scenario_id,
                    call_args, narrative, timeline_phases, scenario, save_returned, cause,
                    gs_result, n_sample, n_backend, n_validate, n_save, backend_failures,
                    rejected_at, signals >>
    /\ UNCHANGED notScenario

\* A loop that samples once and keeps the parameter set, the title and the
\* identifier for the retries.
GS_SampleReusing ==
    /\ gs_pc = "loop"
    /\ IF gs_attempt >= max_retries
       THEN /\ gs_pc' = "returned"
            /\ gs_result' = GSNone
            /\ GaveUp("exhausted", GSNone)
            /\ UNCHANGED << gs_attempt, raw, title, scenario_id, n_sample >>
       ELSE /\ gs_attempt' = gs_attempt + 1
            /\ IF gs_attempt = 0
               THEN /\ \E params \in SampledParameters : raw' = params
                    /\ title' = GenerateTitle(raw', Cardinality(stored))
                    /\ scenario_id' = << gs_calls, gs_attempt' >>
                    /\ n_sample' = n_sample + 1
               ELSE UNCHANGED << raw, title, scenario_id, n_sample >>
            /\ gs_pc' = "llm"
            /\ UNCHANGED << gs_result, signals >>
    /\ UNCHANGED << save_arg, backend, SCHEMA, DB_SCHEMA, stored, gs_calls, max_retries, call_args,
                    narrative, timeline_phases, scenario, save_returned, cause, n_backend,
                    n_validate, n_save, backend_failures, rejected_at >>
    /\ UNCHANGED notScenario

\* lines 184-188: the next pass of the loop samples the parameters, the title,
\* the identifier; an exhausted range falls through to line 305
GS_Sample ==
    /\ gs_pc = "loop"
    /\ IF gs_attempt >= max_retries
       THEN /\ gs_pc' = "returned"
            /\ gs_result' = GSNone
            /\ GaveUp("exhausted", GSNone)
            /\ UNCHANGED << gs_attempt, raw, title, scenario_id, n_sample >>
       ELSE /\ gs_attempt' = gs_attempt + 1
            /\ \E params \in SampledParameters : raw' = params
            /\ title' = GenerateTitle(raw', Cardinality(stored))
            /\ scenario_id' = << gs_calls, gs_attempt' >>
            /\ n_sample' = n_sample + 1
            /\ gs_pc' = "llm"
            /\ UNCHANGED << gs_result, signals >>
    /\ UNCHANGED << save_arg, backend, SCHEMA, DB_SCHEMA, stored, gs_calls, max_retries, call_args,
                    narrative, timeline_phases, scenario, save_returned, cause, n_backend,
                    n_validate, n_save, backend_failures, rejected_at >>
    /\ UNCHANGED notScenario

\* lines 190-196: the backend call and its except clause
GS_Narrative ==
    /\ gs_pc = "llm"
    /\ call_args' = CallArgs
    /\ n_backend' = n_backend + 1
    /\ \E out \in BackendOutcomes(backend, CallArgs) :
          IF out.how = "raise"
          THEN /\ RetryOrNone("[ERROR] LLM failed")
               /\ backend_failures' = backend_failures + 1
               /\ UNCHANGED narrative
          ELSE /\ narrative' = out.value
               /\ gs_pc' = "check"
               /\ UNCHANGED << cause, gs_result, signals, backend_failures >>
    /\ UNCHANGED << save_arg, backend, SCHEMA, DB_SCHEMA, stored, gs_calls, max_retries, gs_attempt, raw,
                    title, scenario_id, timeline_phases, scenario, save_returned, n_sample,
                    n_validate, n_save, rejected_at >>
    /\ UNCHANGED notScenario

\* A consistency step that lets a narrative through when one rule alone failed.
GS_CheckLenient ==
    /\ gs_pc = "check"
    /\ \E d \in ScenarioDraws :
          timeline_phases' = DynamicTimeline(current_year, d[1], d[2], d[3], d[4])
    /\ IF narrative.type # "str"
       THEN \* set_narrative: text.lower() of a value that is no str
            /\ gs_pc' = "returned"
            /\ gs_result' = GSRaise("AttributeError")
            /\ UNCHANGED << scenario, cause, signals >>
       ELSE LET checker == Checker(raw, narrative.text)
                verdict == RunAll(checker)
            IN  IF ~verdict.consistent /\ Len(verdict.failures) > 1
                THEN /\ RetryOrNone("[RETRY] Inconsistent narrative")
                     /\ UNCHANGED scenario
                ELSE /\ scenario' = BuildScenario(scenario_id, title, raw, narrative.text,
                                                  timeline_phases')
                     /\ gs_pc' = "validate"
                     /\ UNCHANGED << cause, gs_result, signals >>
    /\ UNCHANGED << save_arg, backend, SCHEMA, DB_SCHEMA, stored, gs_calls, max_retries, gs_attempt, raw,
                    title, scenario_id, call_args, narrative, save_returned, n_sample,
                    n_backend, n_validate, n_save, backend_failures, rejected_at >>
    /\ UNCHANGED notScenario

\* lines 198-286: the timeline, the consistency check, the record
GS_Check ==
    /\ gs_pc = "check"
    /\ \E d \in ScenarioDraws :
          timeline_phases' = DynamicTimeline(current_year, d[1], d[2], d[3], d[4])
    /\ IF narrative.type # "str"
       THEN \* set_narrative: text.lower() of a value that is no str
            /\ gs_pc' = "returned"
            /\ gs_result' = GSRaise("AttributeError")
            /\ UNCHANGED << scenario, cause, signals >>
       ELSE LET checker == Checker(raw, narrative.text)
                verdict == RunAll(checker)
            IN  IF ~verdict.consistent
                THEN /\ RetryOrNone("[RETRY] Inconsistent narrative")
                     /\ UNCHANGED scenario
                ELSE /\ scenario' = BuildScenario(scenario_id, title, raw, narrative.text,
                                                  timeline_phases')
                     /\ gs_pc' = "validate"
                     /\ UNCHANGED << cause, gs_result, signals >>
    /\ UNCHANGED << save_arg, backend, SCHEMA, DB_SCHEMA, stored, gs_calls, max_retries, gs_attempt, raw,
                    title, scenario_id, call_args, narrative, save_returned, n_sample,
                    n_backend, n_validate, n_save, backend_failures, rejected_at >>
    /\ UNCHANGED notScenario

\* A validation step that treats a rejected record like an inconsistent
\* narrative: it retries.
GS_ValidateRetrying ==
    /\ gs_pc = "validate"
    /\ n_validate' = n_validate + 1
    /\ IF Valid(scenario, SCHEMA)
       THEN /\ gs_pc' = "save"
            /\ UNCHANGED << cause, gs_result, signals, rejected_at >>
       ELSE /\ rejected_at' = gs_attempt
            /\ RetryOrNone("[FATAL] Schema failed")
    /\ UNCHANGED << save_arg, backend, SCHEMA, DB_SCHEMA, stored, gs_calls, max_retries, gs_attempt, raw,
                    title, scenario_id, call_args, narrative, timeline_phases, scenario,
                    save_returned, n_sample, n_backend, n_save, backend_failures >>
    /\ UNCHANGED notScenario

\* lines 288-293: jsonschema.validate and its except clause
GS_Validate ==
    /\ gs_pc = "validate"
    /\ n_validate' = n_validate + 1
    /\ IF Valid(scenario, SCHEMA)
       THEN /\ gs_pc' = "save"
            /\ UNCHANGED << cause, gs_result, signals, rejected_at >>
       ELSE /\ cause' = "[FATAL] Schema failed"
            /\ rejected_at' = gs_attempt
            /\ gs_pc' = "returned"
            /\ gs_result' = GSNone
            /\ GaveUp("fatal", GSNone)
    /\ UNCHANGED << save_arg, backend, SCHEMA, DB_SCHEMA, stored, gs_calls, max_retries, gs_attempt, raw,
                    title, scenario_id, call_args, narrative, timeline_phases, scenario,
                    save_returned, n_sample, n_backend, n_save, backend_failures >>
    /\ UNCHANGED notScenario

\* lines 295-303: save_scenario(scenario), its except clause, return scenario
GS_Save ==
    /\ gs_pc = "save"
    /\ n_save' = n_save + 1
    /\ \E write \in DbWrites :
          LET ret == SaveScenario(scenario, DB_SCHEMA, write)
          IN  /\ save_returned' = ret
              /\ save_arg' = scenario
              /\ stored' = IF ret = "True" THEN stored \cup {scenario.id} ELSE stored
              /\ IF ret = "raise"
                 THEN /\ cause' = "[ERROR] DB save failed"
                      /\ gs_result' = GSNone
                      /\ GaveUp("fatal", GSNone)
                 ELSE /\ cause' = "saved"
                      /\ gs_result' = GSReturn(scenario)
                      /\ UNCHANGED signals
    /\ gs_pc' = "returned"
    /\ UNCHANGED << backend, SCHEMA, DB_SCHEMA, gs_calls, max_retries, gs_attempt, raw, title,
                    scenario_id, call_args, narrative, timeline_phases, scenario, n_sample,
                    n_backend, n_validate, backend_failures, rejected_at >>
    /\ UNCHANGED notScenario

\* the caller has the result; the locals of the call are gone, the module
\* globals and the database stay
GS_Return ==
    /\ gs_pc = "returned"
    /\ gs_pc' = "idle"
    /\ max_retries' = 0
    /\ gs_attempt' = 0
    /\ raw' = NoParameters
    /\ title' = NoTitle
    /\ scenario_id' = << >>
    /\ call_args' = << >>
    /\ narrative' = NoValue
    /\ timeline_phases' = << >>
    /\ scenario' = NoScenario
    /\ save_returned' = NoneVal
    /\ cause' = NoneVal
    /\ gs_result' = NoGSResult
    /\ n_sample' = 0
    /\ n_backend' = 0
    /\ n_validate' = 0
    /\ n_save' = 0
    /\ backend_failures' = 0
    /\ rejected_at' = 0
    /\ save_arg' = NoScenario
    /\ UNCHANGED << backend, SCHEMA, DB_SCHEMA, stored, gs_calls, signals >>
    /\ UNCHANGED notScenario

ScenarioNext ==
    GS_Call \/ GS_Sample \/ GS_Narrative \/ GS_Check \/ GS_Validate \/ GS_Save \/ GS_Return

ScenarioSpec == ScenarioInit /\ [][ScenarioNext]_vars

\* ------------------------------------------------------------------------- \*
\* generate_batch.main as a process                                           \*
\* ------------------------------------------------------------------------- \*
BatchInit ==
    /\ batch_pc = "input"
    /\ num = 0
    /\ item = 0
    /\ console = << >>
    /\ CheckerIdle
    /\ NarrativeIdle
    /\ TimelineIdle
    /\ current_year = YearFrom
    /\ ScenarioIdle
    /\ backend \in Backends
    /\ SCHEMA \in Schemas
    /\ DB_SCHEMA \in Schemas
    /\ stored = {}
    /\ gs_calls = 0
    /\ signals = NoSignals

\* lines 17-23: num = int(input(...)); a ValueError prints a message and returns
B_Input ==
    /\ batch_pc = "input"
    /\ \E entry \in BatchInputs :
          IF entry.valid
          THEN /\ num' = entry.n
               /\ batch_pc' = "loop"
          ELSE /\ batch_pc' = "rejected"
               /\ UNCHANGED num
    /\ UNCHANGED << item, console >>
    /\ UNCHANGED svars
    /\ UNCHANGED notBatch

\* lines 24-26: the next pass of `for i in range(num)` prints the item's number
\* and calls generate_scenario() with the default max_retries
B_Generate ==
    /\ batch_pc = "loop"
    /\ item < num
    /\ gs_pc = "idle"
    /\ batch_pc' = "item"
    /\ max_retries' = DefaultMaxRetries
    /\ gs_calls' = gs_calls + 1
    /\ gs_pc' = "loop"
    /\ UNCHANGED << save_arg, backend, SCHEMA, DB_SCHEMA, stored, gs_attempt, raw, title,
                    scenario_id, call_args, narrative, timeline_phases, scenario, save_returned,
                    cause, gs_result, n_sample, n_backend, n_validate, n_save, backend_failures,
                    rejected_at, signals >>
    /\ UNCHANGED << num, item, console >>
    /\ UNCHANGED notBatch

\* line 26 after the call: generate_scenario has returned, main drops what it
\* returned and goes on with the loop; an exception would leave main.  The
\* console holds what generate_scenario printed last for the item.
B_ItemReturned ==
    /\ batch_pc = "item"
    /\ gs_pc = "returned"
    /\ console' = Append(console, [printed |-> cause, stored |-> scenario_id \in stored])
    /\ item' = item + 1
    /\ batch_pc' = IF gs_result.how = "raise" THEN "raised" ELSE "loop"
    /\ gs_pc' = "idle"
    /\ max_retries' = 0
    /\ gs_attempt' = 0
    /\ raw' = NoParameters
    /\ title' = NoTitle
    /\ scenario_id' = << >>
    /\ call_args' = << >>
    /\ narrative' = NoValue
    /\ timeline_phases' = << >>
    /\ scenario' = NoScenario
    /\ save_returned' = NoneVal
    /\ cause' = NoneVal
    /\ gs_result' = NoGSResult
    /\ n_sample' = 0
    /\ n_backend' = 0
    /\ n_validate' = 0
    /\ n_save' = 0
    /\ backend_failures' = 0
    /\ rejected_at' = 0
    /\ save_arg' = NoScenario
    /\ UNCHANGED << backend, SCHEMA, DB_SCHEMA, stored, gs_calls, signals, num >>
    /\ UNCHANGED notBatch

\* lines 28-39: the range is exhausted; main prints "Done!" and lists the
\* latest num rows of the table
B_Done ==
    /\ batch_pc = "loop"
    /\ item >= num
    /\ batch_pc' = "done"
    /\ UNCHANGED << num, item, console >>
    /\ UNCHANGED svars
    /\ UNCHANGED notBatch

BatchNext ==
    \/ B_Input \/ B_Generate \/ B_ItemReturned \/ B_Done
    \/ GS_Sample \/ GS_Narrative \/ GS_Check \/ GS_Validate \/ GS_Save

BatchSpec == BatchInit /\ [][BatchNext]_vars

\* ------------------------------------------------------------------------- \*
\* The consistency checker as a process                                       \*
\* ------------------------------------------------------------------------- \*
CheckerInit ==
    /\ BatchIdle
    /\ CheckerIdle
    /\ NarrativeIdle
    /\ TimelineIdle
    /\ current_year = YearFrom
    /\ ScenarioIdle
    /\ ScenarioFixed

\* checker = NarrativeConsistencyChecker(params), lines 137-139
CK_New ==
    /\ ck_pc = "idle"
    /\ \E params \in CheckerParameters : ck_self' = NewChecker(params)
    /\ ck_pc' = "made"
    /\ UNCHANGED << ck_given, ck_i, ck_failures, ck_verdicts, ck_result >>
    /\ UNCHANGED notChecker

\* checker.set_narrative(text), lines 141-142
CK_SetNarrative ==
    /\ ck_pc = "made"
    /\ \E text \in CheckerTexts :
          /\ ck_self' = Checker(ck_self.p, text)
          /\ ck_given' = text
    /\ UNCHANGED << ck_pc, ck_i, ck_failures, ck_verdicts, ck_result >>
    /\ UNCHANGED notChecker

\* run_all is entered, lines 169-170: checks = [...], failures = []
CK_RunAll ==
    /\ ck_pc = "made"
    /\ ck_pc' = "running"
    /\ ck_i' = 1
    /\ ck_failures' = << >>
    /\ ck_verdicts' = << >>
    /\ UNCHANGED << ck_self, ck_given, ck_result >>
    /\ UNCHANGED notChecker

\* A loop body that leaves the loop at the first failure.
CK_CheckShortCircuit ==
    /\ ck_pc = "running"
    /\ ck_i <= Len(CheckNames)
    /\ LET v == CheckAt(ck_i, ck_self)
       IN  /\ ck_verdicts' = Append(ck_verdicts, [rule |-> CheckNames[ck_i], ok |-> v.ok, msg |-> v.msg])
           /\ ck_failures' = IF v.ok THEN ck_failures ELSE Append(ck_failures, v.msg)
           /\ ck_i' = IF v.ok THEN ck_i + 1 ELSE Len(CheckNames) + 1
    /\ UNCHANGED << ck_pc, ck_self, ck_given, ck_result >>
    /\ UNCHANGED notChecker

\* one pass of `for check in checks`, lines 171-174
CK_Check ==
    /\ ck_pc = "running"
    /\ ck_i <= Len(CheckNames)
    /\ LET v == CheckAt(ck_i, ck_self)
       IN  /\ ck_verdicts' = Append(ck_verdicts, [rule |-> CheckNames[ck_i], ok |-> v.ok, msg |-> v.msg])
           /\ ck_failures' = IF v.ok THEN ck_failures ELSE Append(ck_failures, v.msg)
    /\ ck_i' = ck_i + 1
    /\ UNCHANGED << ck_pc, ck_self, ck_given, ck_result >>
    /\ UNCHANGED notChecker

\* return len(failures) == 0, failures, line 175
CK_Return ==
    /\ ck_pc = "running"
    /\ ck_i > Len(CheckNames)
    /\ ck_result' = << [consistent |-> Len(ck_failures) = 0, failures |-> ck_failures] >>
    /\ ck_pc' = "returned"
    /\ UNCHANGED << ck_self, ck_given, ck_i, ck_failures, ck_verdicts >>
    /\ UNCHANGED notChecker

\* the caller has the result and lets go of the checker
CK_Drop ==
    /\ ck_pc = "returned"
    /\ ck_pc' = "idle"
    /\ ck_self' = NewChecker(NoParameters)
    /\ ck_given' = << >>
    /\ ck_i' = 0
    /\ ck_failures' = << >>
    /\ ck_verdicts' = << >>
    /\ ck_result' = << >>
    /\ UNCHANGED notChecker

CheckerNext == CK_New \/ CK_SetNarrative \/ CK_RunAll \/ CK_Check \/ CK_Return \/ CK_Drop

CheckerSpec == CheckerInit /\ [][CheckerNext]_vars

\* ------------------------------------------------------------------------- \*
\* Claims about the narrative backend                                         \*
\* ------------------------------------------------------------------------- \*
Names(ms) == [i \in DOMAIN ms |-> ms[i].name]

\* index of the first entry of ms named n
FirstIndex(ms, n) == CHOOSE i \in DOMAIN ms : ms[i].name = n /\ \A j \in 1..(i - 1) : ms[j].name # n

\* C1: for every strategy and every preferred_model that names a configured
\* model, the first model generate_narrative invokes is the preferred model.
C1_PreferredInvokedFirst ==
    (gn_preferred \in ModelNames /\ tried # << >>) => tried[1].model = gn_preferred

\* C6: the candidate list holds each model name at most once, in the order of
\* the first occurrences in the list as built, and the loops never come back to
\* a model they have left.
C6_CandidatesDeduplicated ==
    /\ \A i, j \in DOMAIN models_to_try :
          models_to_try[i].name = models_to_try[j].name => i = j
    /\ Range(Names(models_to_try)) = Range(Names(fallback_list))
    /\ \A i, j \in DOMAIN models_to_try :
          i < j => FirstIndex(fallback_list, models_to_try[i].name)
                       < FirstIndex(fallback_list, models_to_try[j].name)
    /\ \A i, j, k \in DOMAIN tried :
          (i < j /\ j < k /\ tried[i].model = tried[k].model) => tried[j].model = tried[i].model

\* C6 witness: the preferred model is also in the priority list (six entries as
\* built, five candidates) and every candidate has been invoked.
C6_Witness ==
    /\ gn_strategy = PRIORITY
    /\ gn_preferred = "mistral:7b"
    /\ Len(fallback_list) = Len(AVAILABLE_MODELS) + 1
    /\ Len(models_to_try) = Len(AVAILABLE_MODELS)
    /\ Len(tried) = Len(AVAILABLE_MODELS)

LastStdoutLen == StrLen(Strip(lastOutcome.stdout))

\* what generate_narrative does after a failed _run_model: the next retry or
\* model, or, after the last one, the failure return
ProceededAfterFailure ==
    \/ /\ gn_pc = "trying"
       /\ gn_result = NoResult
       /\ Cardinality(LaterPositions(models_to_try, slot, attempt - 1))
              = TotalPositions(models_to_try) - Len(tried)
    \/ /\ gn_pc = "returned"
       /\ Len(tried) = TotalPositions(models_to_try)
       /\ gn_result = GNReturn(FALSE, NoneText, NoneVal, "All models failed")

\* C7 as stated: exit status 0 and a trimmed output that does not exceed 100
\* characters is a recoverable per-model failure.
C7_NotExceedingIsFailure ==
    (lastOutcome.kind = "exit0" /\ LastStdoutLen <= MinNarrativeLen)
        => (~lastRun.success /\ ProceededAfterFailure)

\* C7 amended: exit status 0 and a trimmed output shorter than 100 characters
\* is a recoverable per-model failure: _run_model returns failure, the output is
\* not returned as the narrative, and generate_narrative goes on to the next
\* retry or model.
C7_ShortOutputIsFailure ==
    (lastOutcome.kind = "exit0" /\ LastStdoutLen < MinNarrativeLen)
        => /\ lastRun = Returned(FALSE, EmptyText, "Output too short")
           /\ ProceededAfterFailure

\* C7 witness: a 50-character output padded with whitespace, after which the
\* next model is up.
C7_Witness ==
    /\ lastOutcome.kind = "exit0"
    /\ lastOutcome.stdout.body = 50
    /\ lastOutcome.stdout.lead = 1
    /\ gn_pc = "trying"
    /\ Len(tried) = 2

\* C8: generate_narrative never raises; when every candidate failed on all its
\* retries it returns (False, None, None, non-empty message); when a call
\* succeeded it returns (True, that call's narrative, that model's name, None).
C8_ReportsNeverRaises ==
    /\ gn_result.how # "raise"
    /\ lastRun.how # "raise"
    /\ gn_pc = "returned" =>
          /\ gn_result.how = "return"
          /\ \A i \in 1..(Len(tried) - 1) : ~tried[i].ok
          /\ IF tried # << >> /\ tried[Len(tried)].ok
             THEN /\ gn_result = GNReturn(TRUE, Strip(lastOutcome.stdout),
                                          tried[Len(tried)].model, NoneVal)
                  /\ gn_result.narrative.type = "str"
                  /\ gn_result.narrative.by = gn_result.model_used
                  /\ lastOutcome.kind = "exit0"
             ELSE /\ Len(tried) = TotalPositions(models_to_try)
                  /\ gn_result.success = FALSE
                  /\ gn_result.narrative = NoneText
                  /\ gn_result.model_used = NoneVal
                  /\ gn_result.error \notin {NoneVal, ""}

\* C8 witness: all five models failed, the last because ollama is not installed.
C8_Witness ==
    /\ gn_pc = "returned"
    /\ ~gn_result.success
    /\ Len(tried) = Len(AVAILABLE_MODELS)
    /\ lastOutcome.kind = "notfound"
    /\ gn_strategy = RANDOM

CyclicFrom(k, i) == AVAILABLE_MODELS[((k + i - 1) % Len(AVAILABLE_MODELS)) + 1]

RECURSIVE CallOrder(_)
\* the model names of a candidate list, each as often as its max_retries
CallOrder(ms) ==
    IF ms = << >> THEN << >>
    ELSE [i \in 1..Head(ms).max_retries |-> Head(ms).name] \o CallOrder(Tail(ms))

RECURSIVE AllFailWalk(_, _, _)
\* the models the two loops invoke after position (s, a) when every call fails
AllFailWalk(ms, s, a) ==
    IF ~HasNext(ms, s, a) THEN << >>
    ELSE LET q == NextPosition(ms, s, a)
         IN  << ms[q[1]].name >> \o AllFailWalk(ms, q[1], q[2])

\* candidate lists whose models have other retry counts than the configured ones
RetryLists ==
    {<< [name |-> "a", timeout |-> 60, max_retries |-> ra],
        [name |-> "b", timeout |-> 60, max_retries |-> rb] >> : ra, rb \in 0..2}

\* C16: candidate models are invoked strictly in candidate-list order: a model
\* is invoked at most max_retries times, the next candidate only after the
\* current one has failed that many times, and after the first successful call
\* no further model call is made.
C16_CandidatesTriedInOrder ==
    gn_pc # "idle" =>
        LET order == CallOrder(models_to_try)
        IN    /\ Len(tried) <= Len(order)
              /\ \A i \in DOMAIN tried : tried[i].model = order[i]
              /\ \A i \in 1..(Len(tried) - 1) : ~tried[i].ok
              /\ \A m \in DOMAIN models_to_try :
                    Cardinality({i \in DOMAIN tried : tried[i].model = models_to_try[m].name})
                        <= models_to_try[m].max_retries
              /\ gn_pc = "trying" =>
                    /\ \A i \in DOMAIN tried : ~tried[i].ok
                    /\ Len(tried) < Len(order)
                    /\ models_to_try[slot].name = order[Len(tried) + 1]
              /\ (gn_pc = "returned" /\ Len(tried) < Len(order)) =>
                    (tried # << >> /\ tried[Len(tried)].ok)
              /\ \A ms \in RetryLists : AllFailWalk(ms, 0, -1) = CallOrder(ms)

\* C16 witness: the preferred model and the first configured model failed, the
\* second configured model succeeded, and the call returned.
C16_Witness ==
    /\ gn_pc = "returned"
    /\ gn_strategy = PRIORITY
    /\ gn_preferred = "phi3:medium"
    /\ Len(tried) = 3
    /\ ~tried[1].ok /\ ~tried[2].ok /\ tried[3].ok
    /\ tried[3].model = "llama3:8b"
    /\ gn_result.model_used = "llama3:8b"

\* the narrative of the current attempt passes every consistency rule
PassesEveryRule ==
    /\ narrative.type = "str"
    /\ CheckOrigin(Checker(raw, narrative.text)).ok
    /\ CheckOversight(Checker(raw, narrative.text)).ok
    /\ CheckAgency(Checker(raw, narrative.text)).ok

\* C17: when the consistency check fails in an attempt, no record is validated
\* or saved in that attempt; if attempts remain the next step is a fresh
\* sample_parameters draw, with a new identifier and, before the next check, a
\* new backend call; if the attempt was the max_retries-th, the call returns
\* None without raising.
C17_InconsistencyRetriesFresh ==
    [][ /\ (gs_pc = "check" /\ narrative.type = "str" /\ ~PassesEveryRule) =>
              /\ n_validate' = n_validate
              /\ n_save' = n_save
              /\ stored' = stored
              /\ scenario' = NoScenario
              /\ cause' = "[RETRY] Inconsistent narrative"
              /\ IF gs_attempt = max_retries
                 THEN gs_pc' = "returned" /\ gs_result' = GSNone
                 ELSE gs_pc' = "loop" /\ gs_result' = NoGSResult
        /\ (gs_pc = "loop" /\ cause = "[RETRY] Inconsistent narrative") =>
              /\ gs_attempt < max_retries
              /\ gs_pc' = "llm"
              /\ gs_attempt' = gs_attempt + 1
              /\ n_sample' = n_sample + 1
              /\ raw' \in SampledParameters
              /\ scenario_id' # scenario_id
              /\ n_validate' = n_validate
              /\ n_save' = n_save
        /\ (gs_pc = "llm" /\ gs_pc' = "check") =>
              /\ n_backend' = n_backend + 1
              /\ n_backend' = gs_attempt
      ]_vars

\* C17 witness: the narrative of the first of three attempts was inconsistent,
\* and the second attempt has sampled its own parameters and identifier.
C17_Witness ==
    /\ cause = "[RETRY] Inconsistent narrative"
    /\ gs_pc = "llm"
    /\ max_retries = 3
    /\ gs_attempt = 2
    /\ n_sample = 2
    /\ n_backend = 1
    /\ n_validate = 0
    /\ n_save = 0
    /\ scenario_id = << gs_calls, 2 >>

\* C18: in every attempt the narrative backend is invoked with the title, the
\* sampled parameters and a synthesized timeline, and the timeline of a record
\* given to save_scenario was among the arguments of the call that produced the
\* record's narrative.
C18_BackendGetsTimeline ==
    /\ call_args # << >> => call_args = << "title", "raw", "timeline_phases" >>
    /\ save_arg # NoScenario => \E i \in DOMAIN call_args : call_args[i] = "timeline_phases"

\* C20: in one call of generate_scenario, save_scenario is called at most once,
\* and only in an attempt whose narrative passed every consistency rule and
\* whose assembled record passed schema validation; whenever the call returns
\* a record, it is the record that was given to save_scenario.
C20_SavedOnceAfterChecks ==
    /\ n_save <= 1
    /\ n_save = 0 => (save_arg = NoScenario /\ save_returned = NoneVal)
    /\ n_save = 1 =>
          /\ PassesEveryRule
          /\ n_validate = 1
          /\ Valid(save_arg, SCHEMA)
          /\ save_arg = BuildScenario(<< gs_calls, gs_attempt >>, title, raw, narrative.text,
                                      timeline_phases)
          /\ gs_pc = "returned"
    /\ (gs_pc = "returned" /\ gs_result.how = "return" /\ gs_result.value # NoScenario) =>
          /\ n_save = 1
          /\ gs_result.value = save_arg

\* C20 witness: the first attempt was inconsistent, the second was checked,
\* validated, saved and returned.
C20_Witness ==
    /\ gs_pc = "returned"
    /\ gs_attempt = 2
    /\ n_save = 1
    /\ save_returned = "True"
    /\ gs_result = GSReturn(save_arg)
    /\ save_arg.id \in stored

\* ------------------------------------------------------------------------- \*
\* Claims about the batch                                                     \*
\* ------------------------------------------------------------------------- \*
\* Every one of the num generation requests is issued, whatever the earlier
\* items came to: the loop ends only after num calls of generate_scenario.
EveryRequestIssued ==
    /\ Len(console) = item
    /\ batch_pc = "item" => gs_calls = item + 1
    /\ batch_pc \in {"loop", "done"} => gs_calls = item
    /\ batch_pc = "done" => (item = num /\ Len(console) = num)

\* C14 witness: a batch of two items is done; nothing was saved for the first
\* item, the second was generated and saved.
C14_Witness ==
    /\ batch_pc = "done"
    /\ num = 2
    /\ ~console[1].stored
    /\ console[2].stored

\* C14: in a batch of N items every one of the N generation requests is
\* issued even when an earlier item was aborted, and for each item the caller
\* is told whether it succeeded: the item is reported as saved exactly when a
\* scenario was stored for it.
C14_BatchContinuesAndReports ==
    /\ EveryRequestIssued
    /\ \A i \in DOMAIN console : (console[i].printed = "saved") <=> console[i].stored

\* ------------------------------------------------------------------------- \*
\* Claims about the consistency checker                                       \*
\* ------------------------------------------------------------------------- \*
\* the verdicts of the rules that failed, in call order
ViolatedRules == SelectSeq(ck_verdicts, LAMBDA v : ~v.ok)

\* C12: run_all evaluates every rule (origin, oversight, agency) whatever the
\* earlier rules returned, returns pass exactly when no rule failed, and
\* returns one message per violated rule, in rule order.
C12_RunAllEvaluatesEveryRule ==
    /\ ck_pc = "running" =>
          /\ Len(ck_verdicts) = ck_i - 1
          /\ \A j \in DOMAIN ck_verdicts : ck_verdicts[j].rule = CheckNames[j]
    /\ ck_pc = "returned" =>
          /\ [j \in DOMAIN ck_verdicts |-> ck_verdicts[j].rule]
                 = << "check_origin", "check_oversight", "check_agency" >>
          /\ \A j \in DOMAIN ck_verdicts :
                LET v == CheckAt(j, ck_self)
                IN  ck_verdicts[j].ok = v.ok /\ ck_verdicts[j].msg = v.msg
          /\ ck_result[1].consistent <=> \A j \in DOMAIN ck_verdicts : ck_verdicts[j].ok
          /\ ck_result[1].failures = [j \in DOMAIN ViolatedRules |-> ViolatedRules[j].msg]
          /\ Len(ck_result[1].failures)
                 = Cardinality({j \in DOMAIN ck_verdicts : ~ck_verdicts[j].ok})
          /\ ck_result[1] = RunAll(ck_self)

\* C12 witness: an open-source system without oversight and with low agency,
\* and a text that breaks all three rules: three messages are returned.
C12_Witness ==
    /\ ck_pc = "returned"
    /\ ~ck_result[1].consistent
    /\ ck_result[1].failures =
          << "Open-source must mention transparency/community",
             "No oversight -> no mention of control",
             "Low agency -> no high-agency language" >>

\* two characters are the same letter, whatever their case
SameLetter(a, b) ==
    a = b \/ \E k \in DOMAIN UpperCase : {a, b} = {UpperCase[k], LowerCase[k]}

\* the text has one of the phrases in it, letter case aside
MentionsAny(text, phrases) ==
    \E ph \in phrases :
        \E i \in 0..(Len(text) - Len(ph)) : \A j \in 1..Len(ph) : SameLetter(text[i + j], ph[j])

\* C13: check_oversight with oversight type 'none', and check_agency with an
\* agency level below 0.3, return failure with a non-empty reason whenever the
\* narrative has a phrase of the rule's list in it as a case-insensitive
\* substring; each returns pass whenever its parameter condition does not
\* hold (agency level exactly 0.3 included).
C13_ForbiddenVocabularyFails ==
    \A j \in DOMAIN ck_verdicts :
        LET v == ck_verdicts[j]
        IN  /\ v.rule = "check_oversight" =>
                  /\ (ck_self.p.oversight_type = "none" /\ MentionsAny(ck_given, OversightPhrases))
                        => (~v.ok /\ v.msg # "")
                  /\ ck_self.p.oversight_type # "none" => v.ok
            /\ v.rule = "check_agency" =>
                  /\ (ck_self.p.agency_level < 30 /\ MentionsAny(ck_given, AgencyPhrases))
                        => (~v.ok /\ v.msg # "")
                  /\ ck_self.p.agency_level >= 30 => v.ok

\* C13 witness: oversight type 'none', agency level 0.1 and the text
\* "AUDIT the Agent": both forbidden-vocabulary rules have failed.
C13_Witness ==
    /\ Len(ck_verdicts) = 3
    /\ ck_self.p.oversight_type = "none"
    /\ ck_self.p.agency_level = 10
    /\ MentionsAny(ck_given, {<< "a", "u", "d", "i", "t" >>})
    /\ ~Contains(ck_given, << "a", "u", "d", "i", "t" >>)
    /\ ~ck_verdicts[2].ok
    /\ ~ck_verdicts[3].ok

\* ------------------------------------------------------------------------- \*
\* Claims about the timeline synthesizer                                      \*
\* ------------------------------------------------------------------------- \*
DigitValue(c) == CHOOSE d \in 0..9 : Digit[d + 1] = c

IsDigits(s) == s # << >> /\ \A i \in DOMAIN s : \E d \in 0..9 : Digit[d + 1] = s[i]

RECURSIVE ParseNat(_)
\* int(s) for a string of digits
ParseNat(s) ==
    IF Len(s) = 1 THEN DigitValue(s[1])
    ELSE 10 * ParseNat(SubSeq(s, 1, Len(s) - 1)) + DigitValue(s[Len(s)])

\* position of the hyphen of a "start-end" years string, 0 when there is none
HyphenAt(years) ==
    IF \E i \in DOMAIN years : years[i] = "-"
    THEN CHOOSE i \in DOMAIN years : years[i] = "-" ELSE 0

\* the end year a "start-end" years string reads as
EndYear(years) == ParseNat(SubSeq(years, HyphenAt(years) + 1, Len(years)))

PivotPositions == {i \in DOMAIN timeline : timeline[i].phase = "Pivot Year"}

\* C9: for every outcome of the draws the returned sequence is non-empty and
\* holds exactly one pivot phase, whose years value is the invocation year.
C9_OnePivotAtInvocationYear ==
    tl_pc = "done" =>
        /\ timeline # << >>
        /\ Cardinality(PivotPositions) = 1
        /\ \A i \in PivotPositions :
              /\ timeline[i].years = StrOfNat(current_year)
              /\ IsDigits(timeline[i].years)
              /\ ParseNat(timeline[i].years) = current_year

\* C9 witness: no historical phase was drawn and the branch is 'never': the
\* list is the pivot and one future phase.
C9_Witness ==
    /\ tl_pc = "done"
    /\ emergence = "never"
    /\ Len(timeline) = 2
    /\ timeline[1].phase = "Pivot Year"

LeadingDigits(years) ==
    LET stops == {i \in DOMAIN years : ~IsDigits(<< years[i] >>)}
    IN  IF stops = {} THEN years
        ELSE SubSeq(years, 1, (CHOOSE i \in stops : \A j \in stops : i <= j) - 1)

\* the start year a years string reads as: "2027-2101", "2026", "2100+"
StartYear(years) == ParseNat(LeadingDigits(years))

\* the year range start..end of a years string includes year y
RangeIncludes(years, y) == StartYear(years) <= y /\ y <= EndYear(years)

\* the phases after the pivot that the emergence branch generated
BranchPhases ==
    LET k == CHOOSE i \in PivotPositions : TRUE
    IN  SelectSeq(SubSeq(timeline, k + 1, Len(timeline)),
                  LAMBDA ph : ph.phase # "Long-Term Equilibrium")

EquilibriumAppended == \E i \in DOMAIN timeline : timeline[i].phase = "Long-Term Equilibrium"

\* C11: for every invocation year and every emergence draw, the terminal
\* 'Long-Term Equilibrium' (2100+) phase is appended if and only if no phase
\* generated before it has a year range that includes 2100
\* (start year <= 2100 <= end year).
C11_EquilibriumIffNoRangeIncludes2100 ==
    tl_pc = "done" =>
        (EquilibriumAppended
            <=> ~\E i \in DOMAIN BranchPhases : RangeIncludes(BranchPhases[i].years, 2100))

\* What lines 113-118 do: the terminal phase is appended if and only if no
\* years string of the branch's phases has the characters "2100" in it.
EquilibriumIffNoSubstring ==
    tl_pc = "done" =>
        (EquilibriumAppended
            <=> ~\E i \in DOMAIN BranchPhases :
                    Contains(BranchPhases[i].years, << "2", "1", "0", "0" >>))

\* the phase labels of the templates, in template order
HistoricalLabels == [i \in DOMAIN historical |-> historical[i].phase]

FutureLabels ==
    {"Hidden Emergence", "Stealth Expansion", "Imminent Breakthrough", "Mid-Term Takeoff",
     "Long Horizon", "Stagnation or Containment", "Long-Term Equilibrium"}

\* index of a historical label in the templates
TemplateIndex(label) == CHOOSE i \in DOMAIN HistoricalLabels : HistoricalLabels[i] = label

\* historical phases first, in template order, then the pivot, then the future
SectionsInOrder ==
    \A k \in PivotPositions :
        /\ \A i \in 1..(k - 1) : timeline[i].phase \in Range(HistoricalLabels)
        /\ \A i, j \in 1..(k - 1) :
              i < j => TemplateIndex(timeline[i].phase) < TemplateIndex(timeline[j].phase)
        /\ \A i \in (k + 1)..Len(timeline) : timeline[i].phase \in FutureLabels

\* C19 as stated: historical phases first in template order, then the pivot,
\* then the future phases, and no phase starts earlier than the phase before it.
C19_ChronologicalStarts ==
    tl_pc = "done" =>
        /\ SectionsInOrder
        /\ \A i \in 1..(Len(timeline) - 1) :
              StartYear(timeline[i].years) <= StartYear(timeline[i + 1].years)

\* C19 amended: historical phases first in template order, then the pivot,
\* then the future phases in the order they were generated; start years never
\* decrease, with two exceptions: the Hidden Emergence phase of the 'already'
\* branch starts up to three years before the pivot year that precedes it, and
\* from invocation year 2100 on the terminal 2100+ phase follows phases that
\* start after 2100.
C19_ChronologicalSections ==
    tl_pc = "done" =>
        /\ SectionsInOrder
        /\ \A i \in 1..(Len(timeline) - 1) :
              \/ StartYear(timeline[i].years) <= StartYear(timeline[i + 1].years)
              \/ /\ timeline[i + 1].phase = "Hidden Emergence"
                 /\ timeline[i].phase = "Pivot Year"
                 /\ StartYear(timeline[i + 1].years) >= current_year - 3
              \/ /\ timeline[i + 1].phase = "Long-Term Equilibrium"
                 /\ current_year >= 2100

\* C19 witness: all three historical phases, the pivot, and an 'already' branch
\* whose hidden phase starts before the pivot year.
C19_Witness ==
    /\ tl_pc = "done"
    /\ emergence = "already"
    /\ Len(timeline) >= 6
    /\ timeline[3].phase = "Breakthrough Threshold"
    /\ timeline[4].phase = "Pivot Year"
    /\ StartYear(timeline[5].years) < current_year

C3_SchemaRejectionAborts ==
    rejected_at # 0 =>
        /\ gs_pc = "returned"
        /\ gs_result = GSNone
        /\ gs_attempt = rejected_at
        /\ n_sample = rejected_at
        /\ n_backend = rejected_at
        /\ n_validate = 1
        /\ n_save = 0
        /\ save_returned = NoneVal

\* C3 witness: a schema that rejects every record, rejected in the first of
\* three attempts.
C3_Witness ==
    /\ rejected_at = 1
    /\ max_retries = 3
    /\ SCHEMA.initial_origin_enum = {}
    /\ gs_pc = "returned"

\* C4: what generate_scenario returns when the retries are exhausted differs
\* from what it returns on a structural fatal error (schema or persistence).
C4_ExhaustionDistinctFromFatal == signals.exhausted \cap signals.fatal = {}

\* C5: when save_scenario fails for the assembled record (returns False, or
\* raises), generate_scenario aborts without retrying and does not return the
\* record as a produced scenario.
C5_SaveFailureAborts ==
    (gs_pc = "returned" /\ save_returned \in {"False", "raise"}) =>
        /\ gs_result = GSNone
        /\ n_save = 1
        /\ n_sample = gs_attempt

====
